---- MODULE Spec2Model ----
(***************************************************************************)
(* A model of MIDIPlayer (src/js/midi-player.js): the tick-to-seconds      *)
(* conversion, the live note scheduler, the instrument cache with its      *)
(* load deduplication, and the play/pause/stop/seek/setTempo transport,    *)
(* run on the JavaScript event loop (macrotasks: user calls, fetch         *)
(* completions, timer and interval callbacks; microtasks: the resumed      *)
(* halves of async functions, which drain before the next macrotask).      *)
(*                                                                         *)
(* Numbers of the program are IEEE doubles; the model computes them as     *)
(* exact rationals <<numerator, denominator>>.                             *)
(***************************************************************************)
EXTENDS Integers, Sequences, FiniteSets, TLC

VARIABLES
    midiData,         \* this.midiData (NullDoc before loadMIDI)
    isPlaying,        \* this.isPlaying
    isPaused,         \* this.isPaused
    currentTime,      \* this.currentTime, seconds
    duration,         \* this.duration, seconds
    scheduledEvents,  \* this.scheduledEvents: the timer ids pushed
    audioContext,     \* this.audioContext # null
    tempo,            \* this.tempo, percent
    updateInterval,   \* this.updateInterval: an interval id or NoId
    player,           \* this.player # null (WebAudioFontPlayer is defined)
    instruments,      \* this.instruments: key -> "undefined" | "null" | a font
    channelPrograms,  \* this.channelPrograms: channel -> program
    loadingFonts,     \* this.loadingFonts
    loadingPromises,  \* the keys of this.loadingPromises
    timers,           \* the environment's pending setTimeout note timers
    intervals,        \* the environment's active setInterval polls
    fetches,          \* key -> number of fetches of that key in flight
    conts,            \* suspended async calls (play, playNote), in call order
    now,              \* Date.now(), in poll periods of 100 ms
    hist,             \* history: what was called, for stating the properties
    pure              \* input and result of a pure computation under check

playerVars == <<midiData, isPlaying, isPaused, currentTime, duration,
                scheduledEvents, audioContext, tempo, updateInterval, player,
                instruments, channelPrograms, loadingFonts, loadingPromises,
                timers, intervals, fetches, conts, now, hist>>

vars == <<midiData, isPlaying, isPaused, currentTime, duration,
          scheduledEvents, audioContext, tempo, updateInterval, player,
          instruments, channelPrograms, loadingFonts, loadingPromises,
          timers, intervals, fetches, conts, now, hist, pure>>

-----------------------------------------------------------------------------
(* Exact rational arithmetic: <<n, d>> with d > 0, in lowest terms.         *)

Abs(x) == IF x < 0 THEN -x ELSE x

RECURSIVE GCD(_, _)
GCD(a, b) == IF b = 0 THEN a ELSE GCD(b, a % b)

RNorm(n, d) ==
    LET s == IF d < 0 THEN -1 ELSE 1
        g == GCD(Abs(n), Abs(d))
    IN  <<(s * n) \div g, (s * d) \div g>>

R(n) == <<n, 1>>
RAdd(a, b) == RNorm(a[1] * b[2] + b[1] * a[2], a[2] * b[2])
RSub(a, b) == RNorm(a[1] * b[2] - b[1] * a[2], a[2] * b[2])
RMul(a, b) == RNorm(a[1] * b[1], a[2] * b[2])
RDiv(a, b) == RNorm(a[1] * b[2], a[2] * b[1])
RLt(a, b) == a[1] * b[2] < b[1] * a[2]
RLe(a, b) == a[1] * b[2] <= b[1] * a[2]

-----------------------------------------------------------------------------
(* The parsed document: {ticksPerBeat, tracks: [{events}]}.  Every event    *)
(* carries the fields of all four types, the unused ones 0.                 *)

NoteOn(t, n, v, c) ==
    [type |-> "noteOn", time |-> t, note |-> n, velocity |-> v, channel |-> c,
     program |-> 0, microsecondsPerBeat |-> 0]
NoteOff(t, n, c) ==
    [type |-> "noteOff", time |-> t, note |-> n, velocity |-> 0, channel |-> c,
     program |-> 0, microsecondsPerBeat |-> 0]
TempoEv(t, us) ==
    [type |-> "tempo", time |-> t, note |-> 0, velocity |-> 0, channel |-> 0,
     program |-> 0, microsecondsPerBeat |-> us]
ProgramChange(t, c, p) ==
    [type |-> "programChange", time |-> t, note |-> 0, velocity |-> 0,
     channel |-> c, program |-> p, microsecondsPerBeat |-> 0]

NullDoc == [ticksPerBeat |-> 0, tracks |-> <<>>]

\* tracks.forEach(track => track.events.forEach(...)): every event in visiting
\* order, with the index of its track.
RECURSIVE FlatFrom(_, _)
FlatFrom(tracks, i) ==
    IF i > Len(tracks) THEN <<>>
    ELSE [j \in 1..Len(tracks[i]) |-> [ev |-> tracks[i][j], track |-> i]]
         \o FlatFrom(tracks, i + 1)
AllEvents(doc) == FlatFrom(doc.tracks, 1)

\* Array.prototype.sort((a, b) => a.tick - b.tick): stable, ascending by tick.
RECURSIVE InsertByTick(_, _)
InsertByTick(sorted, c) ==
    IF sorted = <<>> THEN <<c>>
    ELSE IF sorted[Len(sorted)].tick <= c.tick THEN Append(sorted, c)
    ELSE Append(InsertByTick(SubSeq(sorted, 1, Len(sorted) - 1), c),
                sorted[Len(sorted)])
RECURSIVE SortByTick(_)
SortByTick(s) ==
    IF s = <<>> THEN <<>>
    ELSE InsertByTick(SortByTick(SubSeq(s, 1, Len(s) - 1)), s[Len(s)])

\* The tempoChanges array every scheduling and export call rebuilds.
TempoChanges(doc) ==
    LET all == AllEvents(doc)
        idx == {i \in 1..Len(all) : all[i].ev.type = "tempo"}
        RECURSIVE Collect(_)
        Collect(i) ==
            IF i > Len(all) THEN <<>>
            ELSE IF i \in idx
                 THEN <<[tick |-> all[i].ev.time,
                         microsecondsPerBeat |-> all[i].ev.microsecondsPerBeat]>>
                      \o Collect(i + 1)
                 ELSE Collect(i + 1)
    IN  SortByTick(Collect(1))

DefaultTempo == 500000
MicrosPerSecond == 1000000

\* A plausible slip: the seconds of the segments before the last tempo change
\* are not accumulated.
ticksToSeconds_noAccumulate(ticks, ticksPerBeat, tempoChanges) ==
    LET RECURSIVE Walk(_, _, _)
        Walk(i, currentTick, currentTempo) ==
            IF i > Len(tempoChanges) \/ tempoChanges[i].tick >= ticks
            THEN RMul(RNorm(ticks - currentTick, ticksPerBeat),
                      RNorm(currentTempo, MicrosPerSecond))
            ELSE Walk(i + 1, tempoChanges[i].tick,
                      tempoChanges[i].microsecondsPerBeat)
    IN  Walk(1, 0, DefaultTempo)

\* A slip: the tempo in force is never updated from the default.
ticksToSeconds_staleTempo(ticks, ticksPerBeat, tempoChanges) ==
    LET RECURSIVE Walk(_, _, _)
        Walk(i, seconds, currentTick) ==
            IF i > Len(tempoChanges) \/ tempoChanges[i].tick >= ticks
            THEN RAdd(seconds,
                      RMul(RNorm(ticks - currentTick, ticksPerBeat),
                           RNorm(DefaultTempo, MicrosPerSecond)))
            ELSE Walk(i + 1,
                      RAdd(seconds,
                           RMul(RNorm(tempoChanges[i].tick - currentTick,
                                      ticksPerBeat),
                                RNorm(DefaultTempo, MicrosPerSecond))),
                      tempoChanges[i].tick)
    IN  Walk(1, R(0), 0)

ticksToSeconds(ticks, ticksPerBeat, tempoChanges) ==
    LET RECURSIVE Walk(_, _, _, _)
        Walk(i, seconds, currentTick, currentTempo) ==
            IF i > Len(tempoChanges) \/ tempoChanges[i].tick >= ticks
            THEN RAdd(seconds,
                      RMul(RNorm(ticks - currentTick, ticksPerBeat),
                           RNorm(currentTempo, MicrosPerSecond)))
            ELSE Walk(i + 1,
                      RAdd(seconds,
                           RMul(RNorm(tempoChanges[i].tick - currentTick,
                                      ticksPerBeat),
                                RNorm(currentTempo, MicrosPerSecond))),
                      tempoChanges[i].tick,
                      tempoChanges[i].microsecondsPerBeat)
    IN  Walk(1, R(0), 0, DefaultTempo)

\* calculateDuration: the latest event time of the document.
RECURSIVE RMaxOf(_, _, _)
RMaxOf(f, n, acc) ==
    IF n = 0 THEN acc
    ELSE RMaxOf(f, n - 1, IF RLt(acc, f[n]) THEN f[n] ELSE acc)
calculateDuration(doc) ==
    LET all == AllEvents(doc)
        tc == TempoChanges(doc)
        times == [i \in 1..Len(all) |->
                    ticksToSeconds(all[i].ev.time, doc.ticksPerBeat, tc)]
    IN  RMaxOf(times, Len(all), R(0))

-----------------------------------------------------------------------------
(* The live scheduler, as a function of the document, the start offset,    *)
(* the tempo scale and the channel programs it finds.                       *)

Channels == 0..15
DrumChannel == 9
DrumKey == 128

\* A slip: set() keeps the entry a key already has.
SetKey_keepsFirst(m, k, v) ==
    [x \in (DOMAIN m) \cup {k} |-> IF x \in DOMAIN m THEN m[x] ELSE v]
SetKey(m, k, v) == [x \in (DOMAIN m) \cup {k} |-> IF x = k THEN v ELSE m[x]]
DelKey(m, k) == [x \in (DOMAIN m) \ {k} |-> m[x]]

\* eventTime / (this.tempo / 100)
AdjustedTime(doc, tick, tempoPct, tc) ==
    RDiv(ticksToSeconds(tick, doc.ticksPerBeat, tc), RNorm(tempoPct, 100))

\* One event of the nested forEach of scheduleNotes.  acc.noteMap is the one
\* Map shared by all tracks; acc.timers are the setTimeout calls made so far
\* (delay in ms), acc.loads the loadInstrument calls made so far.
ScheduleEvent(acc, doc, tc, startTime, tempoPct, x, i) ==
    LET e == x.ev
        adjustedTime == AdjustedTime(doc, e.time, tempoPct, tc)
        key == <<e.note, e.channel>>
    IN  IF RLt(adjustedTime, startTime) THEN acc
        ELSE IF e.type = "programChange"
        THEN [acc EXCEPT !.channelPrograms[e.channel] = e.program,
                         !.loads = Append(@, IF e.channel = DrumChannel
                                             THEN DrumKey ELSE e.program)]
        ELSE IF e.type = "noteOn"
        THEN [acc EXCEPT !.noteMap =
                SetKey(@, key, [note |-> e.note, velocity |-> e.velocity,
                                startTime |-> adjustedTime,
                                channel |-> e.channel,
                                track |-> x.track, idx |-> i])]
        ELSE IF e.type = "noteOff" /\ key \in DOMAIN acc.noteMap
        THEN LET noteOn == acc.noteMap[key]
             IN  [acc EXCEPT
                    !.timers = Append(@,
                        [note |-> noteOn.note, velocity |-> noteOn.velocity,
                         duration |-> RSub(adjustedTime, noteOn.startTime),
                         channel |-> noteOn.channel,
                         delay |-> RMul(RSub(noteOn.startTime, startTime),
                                        R(1000)),
                         startTime |-> noteOn.startTime,
                         onTrack |-> noteOn.track, onIdx |-> noteOn.idx,
                         offTrack |-> x.track, offIdx |-> i]),
                    !.noteMap = DelKey(@, key)]
        ELSE acc

scheduleNotes(doc, startTime, tempoPct, chanProgs) ==
    LET all == AllEvents(doc)
        tc == TempoChanges(doc)
        RECURSIVE Run(_, _)
        Run(acc, i) ==
            IF i > Len(all) THEN acc
            ELSE Run(ScheduleEvent(acc, doc, tc, startTime, tempoPct,
                                   all[i], i), i + 1)
    IN  Run([noteMap |-> <<>>, timers |-> <<>>, loads |-> <<>>,
             channelPrograms |-> chanProgs], 1)

\* One track of the export loop of exportToWAV: the same pairing with a Map
\* of the track's own.  Yields the notes the renderer is given.
ExportTrack(doc, tc, tempoPct, tr) ==
    LET evs == doc.tracks[tr]
        RECURSIVE Run(_, _)
        Run(acc, j) ==
            IF j > Len(evs) THEN acc.notes
            ELSE LET e == evs[j]
                     eventTime == AdjustedTime(doc, e.time, tempoPct, tc)
                     key == <<e.note, e.channel>>
                 IN  IF e.type = "noteOn"
                     THEN Run([acc EXCEPT !.noteMap =
                                 SetKey(@, key,
                                    [note |-> e.note, velocity |-> e.velocity,
                                     startTime |-> eventTime,
                                     channel |-> e.channel, idx |-> j])],
                              j + 1)
                     ELSE IF e.type = "noteOff" /\ key \in DOMAIN acc.noteMap
                     THEN LET noteOn == acc.noteMap[key]
                          IN  Run([noteMap |-> DelKey(acc.noteMap, key),
                                   notes |-> acc.notes \cup
                                     {[note |-> noteOn.note,
                                       velocity |-> noteOn.velocity,
                                       channel |-> noteOn.channel,
                                       startTime |-> noteOn.startTime,
                                       duration |->
                                          RSub(eventTime, noteOn.startTime),
                                       track |-> tr, onIdx |-> noteOn.idx]}],
                                  j + 1)
                     ELSE Run(acc, j + 1)
    IN  Run([noteMap |-> <<>>, notes |-> {}], 1)

ExportNotes(doc, tempoPct) ==
    UNION {ExportTrack(doc, TempoChanges(doc), tempoPct, tr) :
             tr \in 1..Len(doc.tracks)}

\* One track of exportToJSON: a Map of the track's own, keyed by the pitch
\* alone; the times are those of ticksToSeconds.  `scaled` is whether the
\* times are divided by the tempo scale, which the code does not do.
ExportJSONTrack(doc, tc, tempoPct, tr, scaled) ==
    LET evs == doc.tracks[tr]
        RECURSIVE Run(_, _)
        Run(acc, j) ==
            IF j > Len(evs) THEN acc.notes
            ELSE LET e == evs[j]
                     eventTime ==
                        IF scaled THEN AdjustedTime(doc, e.time, tempoPct, tc)
                        ELSE ticksToSeconds(e.time, doc.ticksPerBeat, tc)
                 IN  IF e.type = "noteOn"
                     THEN Run([acc EXCEPT !.noteMap =
                                 SetKey(@, e.note,
                                    [note |-> e.note, velocity |-> e.velocity,
                                     time |-> eventTime])],
                              j + 1)
                     ELSE IF e.type = "noteOff" /\ e.note \in DOMAIN acc.noteMap
                     THEN LET noteOn == acc.noteMap[e.note]
                          IN  Run([noteMap |-> DelKey(acc.noteMap, e.note),
                                   notes |-> Append(acc.notes,
                                     [note |-> noteOn.note,
                                      time |-> noteOn.time,
                                      duration |->
                                          RSub(eventTime, noteOn.time),
                                      velocity |-> noteOn.velocity])],
                                  j + 1)
                     ELSE Run(acc, j + 1)
    IN  Run([noteMap |-> <<>>, notes |-> <<>>], 1)

\* A slip: the structured export scales its times like the audio export.
exportToJSON_scaled(doc, tempoPct) ==
    [tr \in 1..Len(doc.tracks) |->
        ExportJSONTrack(doc, TempoChanges(doc), tempoPct, tr, TRUE)]

\* exportToJSON of a document, on a player whose this.tempo is tempoPct.
exportToJSON(doc, tempoPct) ==
    [tr \in 1..Len(doc.tracks) |->
        ExportJSONTrack(doc, TempoChanges(doc), tempoPct, tr, FALSE)]

-----------------------------------------------------------------------------
(* The player and its environment as one record, so that a method that     *)
(* calls other methods (seek: stop, then play) composes them.               *)

World ==
    [midiData |-> midiData, isPlaying |-> isPlaying, isPaused |-> isPaused,
     currentTime |-> currentTime, duration |-> duration,
     scheduledEvents |-> scheduledEvents, audioContext |-> audioContext,
     tempo |-> tempo, updateInterval |-> updateInterval, player |-> player,
     instruments |-> instruments, channelPrograms |-> channelPrograms,
     loadingFonts |-> loadingFonts, loadingPromises |-> loadingPromises,
     timers |-> timers, intervals |-> intervals, fetches |-> fetches,
     conts |-> conts, now |-> now, hist |-> hist]

Becomes(W) ==
    /\ midiData' = W.midiData
    /\ isPlaying' = W.isPlaying
    /\ isPaused' = W.isPaused
    /\ currentTime' = W.currentTime
    /\ duration' = W.duration
    /\ scheduledEvents' = W.scheduledEvents
    /\ audioContext' = W.audioContext
    /\ tempo' = W.tempo
    /\ updateInterval' = W.updateInterval
    /\ player' = W.player
    /\ instruments' = W.instruments
    /\ channelPrograms' = W.channelPrograms
    /\ loadingFonts' = W.loadingFonts
    /\ loadingPromises' = W.loadingPromises
    /\ timers' = W.timers
    /\ intervals' = W.intervals
    /\ fetches' = W.fetches
    /\ conts' = W.conts
    /\ now' = W.now
    /\ hist' = W.hist
    /\ UNCHANGED pure

-----------------------------------------------------------------------------
(* The instrument cache.                                                    *)

\* The keys of fontUrls; any other program is loaded from the piano's URL.
FontKeys == {0, 1, 24, 25, 32, 33, 40, 48, 56, 73, 128}
\* The instrument keys the model's documents can ask for (5 has no URL).
Keys == {0, 5, 24, 128}

Undefined == -1     \* no property of this.instruments
Null == -2          \* this.instruments[program] = null
Font(k) == IF k \in FontKeys THEN k ELSE 0     \* window[varName]
Truthy(v) == v >= 0

\* A slip that loses the deduplication: a call never joins a load in flight.
IsLoading_never(W, program) == FALSE

\* loadingFonts.has(program) with a promise stored for it.
IsLoading(W, program) ==
    program \in W.loadingFonts /\ program \in W.loadingPromises

\* if (this.instruments[program]) return;
IsLoaded(W, program) == Truthy(W.instruments[program])

\* loadInstrument up to its await: nothing when loaded, nothing when it joins
\* the load in flight, else the key is marked and _doLoadInstrument runs up to
\* its fetch.
loadInstrument(W, program) ==
    IF IsLoaded(W, program) \/ IsLoading(W, program) THEN W
    ELSE [W EXCEPT !.loadingFonts = @ \cup {program},
                   !.loadingPromises = @ \cup {program},
                   !.fetches[program] = @ + 1]

\* A caller that awaits loadInstrument(program) is suspended until the load
\* in flight settles, unless the key was loaded at the call.
Awaited(W, programs) == {k \in programs : ~IsLoaded(W, k)}

RECURSIVE loadInstruments(_, _)
loadInstruments(W, programs) ==
    IF programs = <<>> THEN W
    ELSE loadInstruments(loadInstrument(W, Head(programs)), Tail(programs))

\* A slip: the catch block never falls back on the piano.
FailedEntry_neverPiano(W, program) == Null

\* The catch block of _doLoadInstrument.
FailedEntry(W, program) ==
    IF program # 0 /\ Truthy(W.instruments[0]) THEN W.instruments[0] ELSE Null

\* A slip: a failed load is not caught, and the calls awaiting it never go
\* on.
SettleLoad_failureStrands(W, program, ok) ==
    [W EXCEPT
        !.instruments[program] = IF ok THEN Font(program)
                                 ELSE FailedEntry(W, program),
        !.loadingFonts = @ \ {program},
        !.loadingPromises = @ \ {program},
        !.fetches[program] = @ - 1,
        !.conts = [i \in 1..Len(@) |->
                     [@[i] EXCEPT !.waiting = IF ok THEN @ \ {program}
                                              ELSE @]]]

\* The fetch of `program` settles (ok: the script ran and defined the font),
\* _doLoadInstrument returns, and the finally block of the loadInstrument
\* call that owns the load runs.  The callers awaiting the load wake up.
SettleLoad(W, program, ok) ==
    [W EXCEPT
        !.instruments[program] = IF ok THEN Font(program)
                                 ELSE FailedEntry(W, program),
        !.loadingFonts = @ \ {program},
        !.loadingPromises = @ \ {program},
        !.fetches[program] = @ - 1,
        !.conts = [i \in 1..Len(@) |->
                     [@[i] EXCEPT !.waiting = @ \ {program}]]]

\* preloadInstrumentsFromMIDI: the Set of programs, in insertion order.
RECURSIVE AddOnce(_, _)
AddOnce(s, k) == IF \E i \in 1..Len(s) : s[i] = k THEN s ELSE Append(s, k)
programsToLoad(doc) ==
    LET all == AllEvents(doc)
        RECURSIVE Run(_, _)
        Run(acc, i) ==
            IF i > Len(all) THEN acc
            ELSE LET e == all[i].ev
                 IN  IF e.type = "programChange"
                     THEN Run(AddOnce(acc, IF e.channel = DrumChannel
                                           THEN DrumKey ELSE e.program), i + 1)
                     ELSE IF e.type = "noteOn" /\ e.channel = DrumChannel
                     THEN Run(AddOnce(acc, DrumKey), i + 1)
                     ELSE Run(acc, i + 1)
        found == Run(<<>>, 1)
    IN  IF found = <<>> THEN <<0>> ELSE found

Range(s) == {s[i] : i \in 1..Len(s)}

-----------------------------------------------------------------------------
(* Suspended async calls.  A call is suspended at an await until the loads  *)
(* in `waiting` have settled; with `waiting` empty it is a microtask, run   *)
(* before any further macrotask.                                            *)

PlayCont(pc, waiting, startTime, origin, opId) ==
    [kind |-> "play", pc |-> pc, waiting |-> waiting, startTime |-> startTime,
     origin |-> origin, opId |-> opId, note |-> 0, velocity |-> 0,
     duration |-> R(0), channel |-> 0, program |-> 0, gen |-> 0]
NoteCont(pc, waiting, tm, program) ==
    [kind |-> "playNote", pc |-> pc, waiting |-> waiting, startTime |-> R(0),
     origin |-> "timer", opId |-> 0, note |-> tm.note,
     velocity |-> tm.velocity, duration |-> tm.duration,
     channel |-> tm.channel, program |-> program, gen |-> tm.gen]

RemoveAt(s, i) == [j \in 1..(Len(s) - 1) |-> IF j < i THEN s[j] ELSE s[j + 1]]
NoMicrotask(W) == \A i \in 1..Len(W.conts) : W.conts[i].waiting # {}

NoId == 0
RECURSIVE FreshFrom(_, _, _)
FreshFrom(used, n, c) ==
    IF n = 0 THEN <<>>
    ELSE IF c \in used THEN FreshFrom(used, n, c + 1)
    ELSE <<c>> \o FreshFrom(used, n - 1, c + 1)
\* n ids the environment has not handed out (or that nothing holds any more).
FreshIds(used, n) == FreshFrom(used, n, 1)

StateOf(W) ==
    IF W.isPlaying THEN "Playing" ELSE IF W.isPaused THEN "Paused" ELSE "Stopped"

-----------------------------------------------------------------------------
(* The transport.                                                           *)

clearScheduledEvents(W) ==
    [W EXCEPT !.timers = {tm \in @ : tm.id \notin W.scheduledEvents},
              !.scheduledEvents = {}]

stopTimeUpdate(W) ==
    IF W.updateInterval # NoId
    THEN [W EXCEPT !.intervals = {iv \in @ : iv.id # W.updateInterval},
                   !.updateInterval = NoId]
    ELSE W

pause(W) ==
    stopTimeUpdate(clearScheduledEvents(
        [W EXCEPT !.isPlaying = FALSE, !.isPaused = TRUE]))

stop(W) ==
    stopTimeUpdate(clearScheduledEvents(
        [W EXCEPT !.isPlaying = FALSE, !.isPaused = FALSE,
                  !.currentTime = R(0), !.hist.stops = @ + 1]))

\* play(startTime) up to its first await: init() creates the audio context
\* and, with no piano, calls loadInstrument(0).
play(W, startTime, origin) ==
    IF W.midiData = NullDoc THEN W
    ELSE LET W1 == [W EXCEPT !.audioContext = TRUE]
             W2 == IF IsLoaded(W1, 0) THEN W1 ELSE loadInstrument(W1, 0)
         IN  [W2 EXCEPT !.conts =
                Append(@, PlayCont("init", Awaited(W1, {0}), startTime,
                                   origin, W.hist.ops))]

\* play after `await this.init()`: preloadInstrumentsFromMIDI up to its await.
playPreload(W, i) ==
    LET programs == programsToLoad(W.midiData)
        W1 == loadInstruments(W, programs)
    IN  [W1 EXCEPT !.conts[i].pc = "preload",
                   !.conts[i].waiting = Awaited(W, Range(programs))]

NewIntervalId(W) ==
    FreshIds({iv.id : iv \in W.intervals} \cup {W.updateInterval}, 1)[1]

startTimeUpdate(W) ==
    LET id == NewIntervalId(W)
    IN  [W EXCEPT !.intervals = @ \cup {[id |-> id, startTime |-> W.now,
                                         initialTime |-> W.currentTime]},
                  !.updateInterval = id]

\* scheduleNotes(startTime) on the player: the timers are registered and
\* pushed, the channel programs written, the loads started.  A timer carries,
\* for the history, the number of stop() calls so far and the id of the poll
\* interval that the same play() is about to start.
scheduleNotesOn(W, startTime) ==
    LET res == scheduleNotes(W.midiData, startTime, W.tempo, W.channelPrograms)
        n == Len(res.timers)
        ids == FreshIds({tm.id : tm \in W.timers} \cup W.scheduledEvents, n)
        new == {[id |-> ids[j], note |-> res.timers[j].note,
                 velocity |-> res.timers[j].velocity,
                 duration |-> res.timers[j].duration,
                 channel |-> res.timers[j].channel,
                 delay |-> res.timers[j].delay, set |-> W.now,
                 gen |-> W.hist.stops, session |-> NewIntervalId(W)] :
                j \in 1..n}
        W1 == [W EXCEPT !.timers = @ \cup new,
                        !.scheduledEvents = @ \cup Range(ids),
                        !.channelPrograms = res.channelPrograms]
    IN  loadInstruments(W1, res.loads)

\* play after `await this.preloadInstrumentsFromMIDI()`.
playResume(W, i) ==
    LET c == W.conts[i]
        W1 == [W EXCEPT !.conts = RemoveAt(@, i), !.isPlaying = TRUE,
                        !.isPaused = FALSE, !.currentTime = c.startTime]
    IN  startTimeUpdate(scheduleNotesOn(W1, c.startTime))

seek(W, time) ==
    LET wasPlaying == W.isPlaying
        W1 == [stop(W) EXCEPT !.currentTime = time]
    IN  IF wasPlaying THEN play(W1, time, "seek") ELSE W1

\* A slip: the position is read after stop() has reset it to 0.
setTempo_positionAfterStop(W, t) ==
    LET wasPlaying == W.isPlaying
        W1 == IF wasPlaying THEN stop(W) ELSE W
        time == W1.currentTime
        W2 == [W1 EXCEPT !.tempo = t]
    IN  IF wasPlaying THEN play(W2, time, "setTempo") ELSE W2

setTempo(W, t) ==
    LET wasPlaying == W.isPlaying
        time == W.currentTime
        W1 == IF wasPlaying THEN stop(W) ELSE W
        W2 == [W1 EXCEPT !.tempo = t]
    IN  IF wasPlaying THEN play(W2, time, "setTempo") ELSE W2

-----------------------------------------------------------------------------
(* A note fires.                                                            *)

\* playNote from `const finalInstrument` on; `instrument` is the value read
\* before the fallback await.  The visualizer is told the note; the history
\* records whether a stop() came after the note was scheduled.
playNoteFinish(W, c, instrument) ==
    LET finalInstrument == IF Truthy(instrument) THEN instrument
                           ELSE W.instruments[0]
    IN  IF ~Truthy(finalInstrument) \/ ~W.player THEN W
        ELSE [W EXCEPT !.hist.lateAddNote = @ \/ (c.gen < W.hist.stops)]

ProgramOf(W, channel) ==
    IF channel = DrumChannel THEN DrumKey ELSE W.channelPrograms[channel]

\* playNote up to its first await, or to its end when the instrument is there.
playNote(W, tm) ==
    IF ~W.audioContext THEN W
    ELSE LET program == ProgramOf(W, tm.channel)
         IN  IF ~IsLoaded(W, program)
             THEN [loadInstrument(W, program) EXCEPT !.conts =
                     Append(@, NoteCont("load", {program}, tm, program))]
             ELSE playNoteFinish(W, tm, W.instruments[program])

\* playNote after `await this.loadInstrument(program)`.
playNoteLoaded(W, i) ==
    LET c == W.conts[i]
        instrument == W.instruments[c.program]
    IN  IF ~Truthy(instrument) /\ ~IsLoaded(W, 0)
        THEN [loadInstrument(W, 0) EXCEPT !.conts[i].pc = "fallback",
                                         !.conts[i].waiting = {0}]
        ELSE playNoteFinish([W EXCEPT !.conts = RemoveAt(@, i)], c, instrument)

\* playNote after `await this.loadInstrument(0)`.
playNoteFallback(W, i) ==
    playNoteFinish([W EXCEPT !.conts = RemoveAt(@, i)], W.conts[i], Null)

-----------------------------------------------------------------------------
(* The audio export on the player.                                          *)

ExportCont(waiting, opId) ==
    [kind |-> "exportToWAV", pc |-> "preload", waiting |-> waiting,
     startTime |-> R(0), origin |-> "user", opId |-> opId, note |-> 0,
     velocity |-> 0, duration |-> R(0), channel |-> 0, program |-> 0,
     gen |-> 0]

\* exportToWAV up to `await this.preloadInstrumentsFromMIDI()`.
exportToWAV(W) ==
    IF W.midiData = NullDoc THEN W
    ELSE LET programs == programsToLoad(W.midiData)
             W1 == loadInstruments(W, programs)
         IN  [W1 EXCEPT !.conts =
                Append(@, ExportCont(Awaited(W, Range(programs)),
                                     W.hist.ops))]

\* The notes exportToWAV queues on the renderer after its await: each paired
\* note of each track, with the program of its channel and the instrument
\* found for it, unless no instrument is found.
QueuedNotes(W) ==
    LET paired == ExportNotes(W.midiData, W.tempo)
        Program(n) == ProgramOf(W, n.channel)
        Instrument(n) == IF Truthy(W.instruments[Program(n)])
                         THEN W.instruments[Program(n)]
                         ELSE W.instruments[0]
    IN  {[note |-> n.note, velocity |-> n.velocity, channel |-> n.channel,
          startTime |-> n.startTime, duration |-> n.duration,
          track |-> n.track, onIdx |-> n.onIdx,
          program |-> Program(n), instrument |-> Instrument(n)] :
            n \in {x \in paired : Truthy(Instrument(x)) /\ W.player}}

\* exportToWAV after its await: the notes are queued on an offline context
\* of the call's own and rendered; the player's fields are not written.
exportToWAVResume(W, i) == [W EXCEPT !.conts = RemoveAt(@, i)]

-----------------------------------------------------------------------------
(* The specification of the player: Init is the constructor's state.        *)

MaxOps == 3          \* transport calls made by the user
MaxDocLoads == 1     \* loadMIDI calls
MaxNow == 3          \* poll periods of wall time that pass
MaxFailures == 1     \* fetches that fail
PollPeriodMs == 100

\* One tick is 0.1 s: a program change, and one note from 0.1 s to 0.2 s.
TransportDocs ==
    {[ticksPerBeat |-> 5,
      tracks |-> << <<ProgramChange(0, 0, 24), NoteOn(1, 60, 100, 0),
                      NoteOff(2, 60, 0)>> >>]}
Offsets == {R(0), <<1, 10>>}
Scales == {100, 200}

NoPure == [kind |-> "none"]

PlayerInit ==
    /\ midiData = NullDoc
    /\ isPlaying = FALSE
    /\ isPaused = FALSE
    /\ currentTime = R(0)
    /\ duration = R(0)
    /\ scheduledEvents = {}
    /\ audioContext = FALSE
    /\ tempo = 100
    /\ updateInterval = NoId
    /\ player = TRUE
    /\ instruments = [k \in Keys |-> Undefined]
    /\ channelPrograms = [c \in Channels |-> 0]
    /\ loadingFonts = {}
    /\ loadingPromises = {}
    /\ timers = {}
    /\ intervals = {}
    /\ fetches = [k \in Keys |-> 0]
    /\ conts = <<>>
    /\ now = 0
    /\ hist = [ops |-> 0, stops |-> 0, failures |-> 0, docLoads |-> 0,
               lateAddNote |-> FALSE, pauseOk |-> FALSE,
               lastOp |-> [op |-> "none", was |-> "Stopped", t |-> R(0),
                           scale |-> 0, pos |-> R(0)]]

Init == PlayerInit /\ pure = NoPure

\* A transport call by the user is entered in the history.
Called(W, op, t, scale) ==
    [W EXCEPT !.hist.ops = @ + 1,
              !.hist.pauseOk = IF op = "pause" THEN W.isPlaying ELSE @,
              !.hist.lastOp = [op |-> op, was |-> StateOf(W), t |-> t,
                               scale |-> scale, pos |-> W.currentTime]]

CanCall == hist.ops < MaxOps /\ NoMicrotask(World)

LoadMIDI(d) ==
    /\ hist.docLoads < MaxDocLoads
    /\ NoMicrotask(World)
    /\ Becomes([World EXCEPT !.midiData = d,
                             !.duration = calculateDuration(d),
                             !.hist.docLoads = @ + 1])

Play(t) == CanCall /\ Becomes(play(Called(World, "play", t, 0), t, "user"))

Pause == CanCall /\ Becomes(pause(Called(World, "pause", R(0), 0)))

Stop == CanCall /\ Becomes(stop(Called(World, "stop", R(0), 0)))

Seek(t) == CanCall /\ Becomes(seek(Called(World, "seek", t, 0), t))

SetTempo(s) == CanCall /\ Becomes(setTempo(Called(World, "setTempo", R(0), s), s))

\* The fetch of a load in flight settles, well or badly.
FetchSettles(k, ok) ==
    /\ fetches[k] > 0
    /\ NoMicrotask(World)
    /\ ok \/ hist.failures < MaxFailures
    /\ Becomes([SettleLoad(World, k, ok) EXCEPT
                  !.hist.failures = IF ok THEN @ ELSE @ + 1])

\* A suspended call whose awaits have settled goes on.
MicrotaskAt(i) ==
    /\ conts[i].waiting = {}
    /\ Becomes(IF conts[i].kind = "play"
               THEN IF conts[i].pc = "init" THEN playPreload(World, i)
                    ELSE playResume(World, i)
               ELSE IF conts[i].kind = "exportToWAV"
               THEN exportToWAVResume(World, i)
               ELSE IF conts[i].pc = "load" THEN playNoteLoaded(World, i)
                    ELSE playNoteFallback(World, i))

\* The setTimeout callback of scheduleNotes, no earlier than its delay.
TimerFiresOf(tm) ==
    /\ NoMicrotask(World)
    /\ RLe(tm.delay, R((now - tm.set) * PollPeriodMs))
    /\ LET W == [World EXCEPT !.timers = @ \ {tm}]
       IN  Becomes(IF isPlaying THEN playNote(W, tm) ELSE W)

\* The setInterval callback of startTimeUpdate.
IntervalFiresOf(iv) ==
    /\ NoMicrotask(World)
    /\ now > iv.startTime
    /\ IF isPlaying
       THEN LET elapsed == RNorm((now - iv.startTime) * PollPeriodMs, 1000)
                time == RAdd(iv.initialTime, RMul(elapsed, RNorm(tempo, 100)))
                W == [World EXCEPT !.currentTime = time]
            IN  Becomes(IF RLe(duration, time)
                        THEN [stop(W) EXCEPT !.hist.lastOp.op = "ended"]
                        ELSE W)
       ELSE UNCHANGED vars

Microtask == \E i \in 1..Len(conts) : MicrotaskAt(i)
TimerFires == \E tm \in timers : TimerFiresOf(tm)
IntervalFires == \E iv \in intervals : IntervalFiresOf(iv)

\* Wall time passes.
Tick ==
    /\ now < MaxNow
    /\ NoMicrotask(World)
    /\ now' = now + 1
    /\ UNCHANGED <<midiData, isPlaying, isPaused, currentTime, duration,
                   scheduledEvents, audioContext, tempo, updateInterval,
                   player, instruments, channelPrograms, loadingFonts,
                   loadingPromises, timers, intervals, fetches, conts, hist,
                   pure>>

Next ==
    \/ \E d \in TransportDocs : LoadMIDI(d)
    \/ \E t \in Offsets : Play(t)
    \/ Pause
    \/ Stop
    \/ \E t \in Offsets : Seek(t)
    \/ \E s \in Scales : SetTempo(s)
    \/ \E k \in Keys, ok \in BOOLEAN : FetchSettles(k, ok)
    \/ Microtask
    \/ TimerFires
    \/ IntervalFires
    \/ Tick

Spec == Init /\ [][Next]_vars

-----------------------------------------------------------------------------
(* The audio export among the transport calls: documents are loaded,        *)
(* played, stopped and exported, and the fetches settle.                    *)

ExportToWAV ==
    CanCall /\ Becomes(exportToWAV(Called(World, "exportToWAV", R(0), 0)))

ExportNext ==
    \/ \E d \in TransportDocs : LoadMIDI(d)
    \/ \E t \in Offsets : Play(t)
    \/ Stop
    \/ ExportToWAV
    \/ \E k \in Keys, ok \in BOOLEAN : FetchSettles(k, ok)
    \/ Microtask

ExportSpec == Init /\ [][ExportNext]_vars

-----------------------------------------------------------------------------
(* Playing through failing loads: documents are loaded and played, the      *)
(* fetches settle well or badly, the note timers fire.                     *)

MaxLoadFailures == 3     \* fetches that fail

\* The transport document, and one whose program (5) has no font URL of its
\* own.
PreloadDocs ==
    TransportDocs \cup
    {[ticksPerBeat |-> 5,
      tracks |-> << <<ProgramChange(0, 0, 5), NoteOn(1, 60, 100, 0),
                      NoteOff(2, 60, 0)>> >>]}

FetchFails(k) ==
    /\ fetches[k] > 0
    /\ NoMicrotask(World)
    /\ hist.failures < MaxLoadFailures
    /\ Becomes([SettleLoad(World, k, FALSE) EXCEPT !.hist.failures = @ + 1])

PreloadNext ==
    \/ \E d \in PreloadDocs : LoadMIDI(d)
    \/ \E t \in Offsets : Play(t)
    \/ \E k \in Keys : FetchSettles(k, TRUE)
    \/ \E k \in Keys : FetchFails(k)
    \/ Microtask
    \/ TimerFires
    \/ Tick

PreloadSpec == Init /\ [][PreloadNext]_vars

-----------------------------------------------------------------------------
(* ticksToSeconds on its own: a tempo map sorted by tick, positive tempos,  *)
(* a positive ticksPerBeat, and two ticks a <= b.                           *)

MaxTick == 3         \* ticks run over 0..MaxTick
MaxChanges == 2      \* tempo changes in a map
MaxTicksPerBeat == 2
Tempos == {250000, 500000, 1000000}

ChangeSet == [tick : 0..MaxTick, microsecondsPerBeat : Tempos]
RECURSIVE SortedMaps(_)
SortedMaps(n) ==
    IF n = 0 THEN {<<>>}
    ELSE LET shorter == SortedMaps(n - 1)
         IN  shorter \cup
             {Append(m, c) : m \in {x \in shorter : Len(x) = n - 1},
                             c \in ChangeSet} 
IsSortedMap(m) == \A i \in 1..(Len(m) - 1) : m[i].tick <= m[i + 1].tick
TempoMaps == {m \in SortedMaps(MaxChanges) : IsSortedMap(m)}

TicksInit ==
    /\ PlayerInit
    /\ pure \in {[kind |-> "ticks", ticksPerBeat |-> tpb, tempoChanges |-> m,
                  a |-> a, b |-> b, done |-> FALSE, sa |-> R(0), sb |-> R(0)] :
                 tpb \in 1..MaxTicksPerBeat, m \in TempoMaps,
                 a \in 0..MaxTick, b \in 0..MaxTick}

EvalTicks ==
    /\ ~pure.done
    /\ pure' = [pure EXCEPT
                  !.done = TRUE,
                  !.sa = ticksToSeconds(pure.a, pure.ticksPerBeat,
                                        pure.tempoChanges),
                  !.sb = ticksToSeconds(pure.b, pure.ticksPerBeat,
                                        pure.tempoChanges)]
    /\ UNCHANGED playerVars

TicksSpec == TicksInit /\ [][EvalTicks]_vars

-----------------------------------------------------------------------------
(* scheduleNotes on its own: a document is written event by event, each     *)
(* track in tick order, and then scheduled from a start offset under every  *)
(* tempo scale.                                                             *)

MaxEvents == 4       \* events in a document
MaxTracks == 2
MaxSchedTick == 2    \* event ticks run over 0..MaxSchedTick; a tick is 0.5 s
SchedOffsets == {R(0), <<1, 2>>}

EventsAt(t) ==
    {NoteOn(t, 60, 100, 0), NoteOff(t, 60, 0), ProgramChange(t, 0, 24),
     TempoEv(t, 250000)}

SchedInit ==
    /\ PlayerInit
    /\ pure = [kind |-> "sched", doc |-> [ticksPerBeat |-> 1,
                                          tracks |-> << <<>> >>],
               done |-> FALSE, startTime |-> R(0), out |-> <<>>]

EventCount(doc) == Len(AllEvents(doc))
LastTrack(doc) == doc.tracks[Len(doc.tracks)]

AddEvent(e) ==
    /\ ~pure.done
    /\ EventCount(pure.doc) < MaxEvents
    /\ IF LastTrack(pure.doc) = <<>> THEN TRUE
       ELSE LastTrack(pure.doc)[Len(LastTrack(pure.doc))].time <= e.time
    /\ pure' = [pure EXCEPT !.doc.tracks[Len(pure.doc.tracks)] = Append(@, e)]
    /\ UNCHANGED playerVars

NewTrack ==
    /\ ~pure.done
    /\ Len(pure.doc.tracks) < MaxTracks
    /\ LastTrack(pure.doc) # <<>>
    /\ pure' = [pure EXCEPT !.doc.tracks = Append(@, <<>>)]
    /\ UNCHANGED playerVars

Schedule(t) ==
    /\ ~pure.done
    /\ pure' = [pure EXCEPT
                  !.done = TRUE,
                  !.startTime = t,
                  !.out = [s \in Scales |->
                             scheduleNotes(pure.doc, t, s, channelPrograms)]]
    /\ UNCHANGED playerVars

\* The tempo scales of an audio export: half speed as well.
ExportScales == Scales \cup {50}

SampleRate == 44100

\* Math.ceil(sampleRate * duration), the length in frames of the offline
\* context of exportToWAV.
BufferLength(dur) ==
    LET x == RMul(R(SampleRate), dur)
    IN  (x[1] + x[2] - 1) \div x[2]

\* The document is exported, as JSON and as audio, and scheduled from offset
\* 0, under every tempo scale.
Export ==
    /\ ~pure.done
    /\ pure' = [kind |-> "export", doc |-> pure.doc, done |-> TRUE,
                frames |-> BufferLength(calculateDuration(pure.doc)),
                queued |-> [s \in ExportScales |-> ExportNotes(pure.doc, s)],
                json |-> [s \in Scales |-> exportToJSON(pure.doc, s)],
                wav |-> [s \in Scales |-> ExportNotes(pure.doc, s)],
                live |-> [s \in Scales |->
                            scheduleNotes(pure.doc, R(0), s, channelPrograms)]]
    /\ UNCHANGED playerVars

SchedNext ==
    \/ \E t \in 0..MaxSchedTick : \E e \in EventsAt(t) : AddEvent(e)
    \/ NewTrack
    \/ \E t \in SchedOffsets : Schedule(t)
    \/ Export

SchedSpec == SchedInit /\ [][SchedNext]_vars

-----------------------------------------------------------------------------
(* scheduleNotes on notes of one key struck with two velocities: the       *)
(* documents in which a noteOn meets a pending noteOn of its key.           *)

PairEventsAt(t) ==
    {NoteOn(t, 60, 100, 0), NoteOn(t, 60, 80, 0), NoteOff(t, 60, 0)}

PairNext ==
    \/ \E t \in 0..MaxSchedTick : \E e \in PairEventsAt(t) : AddEvent(e)
    \/ NewTrack
    \/ \E t \in SchedOffsets : Schedule(t)

PairSpec == SchedInit /\ [][PairNext]_vars

-----------------------------------------------------------------------------
(* The claims.                                                              *)

Waiting(k) == {i \in 1..Len(conts) : k \in conts[i].waiting}

\* C1: for every instrument key at most one load, with exactly one fetch, is
\* in flight at any instant; the key is marked as loading exactly while that
\* fetch is in flight, and every caller suspended on the key is waiting for
\* that one fetch (it goes on only when the fetch settles).
C1_OneFetchPerKey ==
    \A k \in Keys :
        /\ fetches[k] <= 1
        /\ (k \in loadingFonts) <=> (fetches[k] = 1)
        /\ (k \in loadingPromises) <=> (fetches[k] = 1)
        /\ Waiting(k) # {} => fetches[k] = 1

\* Two calls of loadInstrument for one key are waiting on its single fetch.
C1_Witness ==
    \E k \in Keys : fetches[k] = 1 /\ Cardinality(Waiting(k)) >= 2

\* C2 (as claimed): no note scheduled before a stop() reaches the
\* visualizer's addNote after that stop().
C2_NoAddNoteAfterStop == ~hist.lateAddNote

\* C3 (as claimed): at most one poll interval is active and it is the one in
\* updateInterval; every pending note timer is in scheduledEvents; the
\* pending note timers all come from one play().
C3_OneLiveSession ==
    /\ Cardinality(intervals) <= 1
    /\ \A iv \in intervals : iv.id = updateInterval
    /\ \A tm \in timers : tm.id \in scheduledEvents
    /\ \A tm1, tm2 \in timers : tm1.session = tm2.session

StateNext ==
    IF isPlaying' THEN "Playing" ELSE IF isPaused' THEN "Paused" ELSE "Stopped"

\* The step is the user's call `op`.
CallStep(op) == hist'.ops = hist.ops + 1 /\ hist'.lastOp.op = op

\* The step ends the play() that the user's latest call, an `origin`, made.
SettleStep(i, origin) ==
    /\ conts[i].kind = "play" /\ conts[i].pc = "preload"
    /\ conts[i].waiting = {}
    /\ conts[i].origin = origin /\ conts[i].opId = hist.ops
    /\ conts' = RemoveAt(conts, i)

AnchoredNext(t) ==
    /\ currentTime' = t
    /\ \E iv \in intervals' : iv.id = updateInterval' /\ iv.initialTime = t

\* C4 (as claimed): seek(t) called in Stopped or Paused (a Paused entered by
\* pause() while Playing) leaves the session in that state at position t, and
\* the play that seek(t) resumes from Playing ends in Playing, anchored at t.
C4_SeekKeepsState ==
    [][/\ (CallStep("seek") /\ ~isPlaying /\ (isPaused => hist.pauseOk))
           => /\ StateNext = StateOf(World)
              /\ currentTime' = hist'.lastOp.t
       /\ \A i \in 1..Len(conts) :
            SettleStep(i, "seek")
               => StateNext = "Playing" /\ AnchoredNext(hist.lastOp.t)]_vars

\* C5: setTempo(scale) sets the tempo; called in Stopped or Paused it changes
\* neither the state nor the position; called in Playing at position p it
\* resumes a play at p, and when that play settles (no other call by the user
\* in between) the session is Playing at tempo = scale, anchored at p.
C5_SetTempoKeepsStateAndPosition ==
    [][/\ CallStep("setTempo")
           => /\ tempo' = hist'.lastOp.scale
              /\ ~isPlaying => /\ StateNext = StateOf(World)
                               /\ currentTime' = currentTime
              /\ isPlaying => \E i \in 1..Len(conts') :
                                 /\ conts'[i].origin = "setTempo"
                                 /\ conts'[i].opId = hist'.ops
                                 /\ conts'[i].startTime = currentTime
       /\ \A i \in 1..Len(conts) :
            SettleStep(i, "setTempo")
               => /\ StateNext = "Playing"
                  /\ tempo' = hist.lastOp.scale
                  /\ AnchoredNext(hist.lastOp.pos)]_vars

\* setTempo(200) was called while Playing at a position p > 0, and the play it
\* resumed has settled: Playing at tempo 200, anchored at p.
C5_Witness ==
    /\ hist.lastOp.op = "setTempo" /\ hist.lastOp.was = "Playing"
    /\ hist.lastOp.scale = 200 /\ RLt(R(0), hist.lastOp.pos)
    /\ conts = <<>>
    /\ isPlaying /\ tempo = 200 /\ currentTime = hist.lastOp.pos
    /\ \E iv \in intervals :
         iv.id = updateInterval /\ iv.initialTime = hist.lastOp.pos

\* C6 (as claimed): for one document and one start offset, scale 200
\* schedules the notes that scale 100 schedules, each at half the delay.
C6_DoubleTempoHalvesDelays ==
    (pure.kind = "sched" /\ pure.done) =>
        LET t100 == pure.out[100].timers
            t200 == pure.out[200].timers
        IN  /\ Len(t200) = Len(t100)
            /\ \A i \in 1..Len(t100) :
                 /\ i <= Len(t200)
                 /\ t200[i].onIdx = t100[i].onIdx
                 /\ t200[i].delay = RMul(t100[i].delay, <<1, 2>>)

\* C7 (as claimed): at scale 100 the timers registered from offset t are
\* those of the document's paired notes (a noteOn and the noteOff after it
\* in its track) that start at or after t, each after (start - t) seconds.
C7_SchedulesNotesFromOffset ==
    (pure.kind = "sched" /\ pure.done) =>
        LET t == pure.startTime
            live == pure.out[100].timers
            paired == {n \in ExportNotes(pure.doc, 100) : ~RLt(n.startTime, t)}
        IN  {[note |-> live[i].note, channel |-> live[i].channel,
              startTime |-> live[i].startTime, delay |-> live[i].delay] :
               i \in 1..Len(live)}
            = {[note |-> n.note, channel |-> n.channel,
                startTime |-> n.startTime,
                delay |-> RMul(RSub(n.startTime, t), R(1000))] : n \in paired}

\* C8 (as claimed): a key whose load failed with no piano to fall back on
\* (its entry is null) is never fetched again.
C8_FailedIsTerminal ==
    \A k \in Keys : instruments[k] = Null => fetches[k] = 0

\* C9 (as claimed): every scheduled note pairs a noteOn with a noteOff that
\* follows it in the same track.
C9_PairedWithinTrack ==
    (pure.kind = "sched" /\ pure.done) =>
        \A s \in Scales : \A i \in 1..Len(pure.out[s].timers) :
            LET tm == pure.out[s].timers[i]
            IN  tm.onTrack = tm.offTrack /\ tm.onIdx < tm.offIdx

\* C10: for a tempo map sorted by tick, positive tempos and ticksPerBeat > 0,
\* ticksToSeconds(a) <= ticksToSeconds(b) whenever a <= b.
C10_TicksToSecondsMonotonic ==
    (pure.kind = "ticks" /\ pure.done /\ pure.a <= pure.b) =>
        RLe(pure.sa, pure.sb)

\* a < b, both on tempo changes, the tempo falling at a: the seconds grow.
C10_Witness ==
    /\ pure.kind = "ticks" /\ pure.done /\ pure.a < pure.b
    /\ Len(pure.tempoChanges) = 2
    /\ pure.tempoChanges[1].tick = pure.a /\ pure.a > 0
    /\ pure.tempoChanges[2].tick = pure.b
    /\ pure.tempoChanges[1].microsecondsPerBeat < DefaultTempo
    /\ RLt(pure.sa, pure.sb)

-----------------------------------------------------------------------------
(* The piecewise-linear reference of the tick-to-seconds conversion, tick   *)
(* by tick: a tick u lasts (tempo in force at u) / ticksPerBeat             *)
(* microseconds, the tempo in force being that of the last change of the    *)
(* map at or before u, 500000 before the first.                             *)

TempoInForce(u, tempoChanges) ==
    LET at == {i \in 1..Len(tempoChanges) : tempoChanges[i].tick <= u}
    IN  IF at = {} THEN 500000
        ELSE tempoChanges[CHOOSE i \in at : \A j \in at : j <= i]
                .microsecondsPerBeat

RECURSIVE ReferenceSeconds(_, _, _)
ReferenceSeconds(ticks, ticksPerBeat, tempoChanges) ==
    IF ticks = 0 THEN R(0)
    ELSE RAdd(ReferenceSeconds(ticks - 1, ticksPerBeat, tempoChanges),
              RNorm(TempoInForce(ticks - 1, tempoChanges),
                    ticksPerBeat * 1000000))

\* C11: ticksToSeconds is the piecewise-linear reference; it is 0 at tick 0,
\* and 0.5 s at tick 480 with 480 ticks per beat and one 500000 tempo.
C11_TicksToSecondsIsReference ==
    (pure.kind = "ticks" /\ pure.done) =>
        /\ pure.sa = ReferenceSeconds(pure.a, pure.ticksPerBeat,
                                      pure.tempoChanges)
        /\ pure.sb = ReferenceSeconds(pure.b, pure.ticksPerBeat,
                                      pure.tempoChanges)
        /\ pure.a = 0 => pure.sa = R(0)
        /\ ticksToSeconds(480, 480,
                          <<[tick |-> 0, microsecondsPerBeat |-> 500000]>>)
              = <<1, 2>>

\* Two tempo changes strictly before the target tick, neither the default
\* tempo: three segments are summed.
C11_Witness ==
    /\ pure.kind = "ticks" /\ pure.done
    /\ Len(pure.tempoChanges) = 2
    /\ pure.tempoChanges[1].tick > 0
    /\ pure.tempoChanges[1].tick < pure.tempoChanges[2].tick
    /\ pure.tempoChanges[2].tick < pure.b
    /\ pure.tempoChanges[1].microsecondsPerBeat = 250000
    /\ pure.tempoChanges[2].microsecondsPerBeat = 1000000
    /\ pure.sb = ReferenceSeconds(pure.b, pure.ticksPerBeat,
                                  pure.tempoChanges)

\* The notes of an audio export, their times divided by scale / 100.
ScaledBy(notes, scale) ==
    {[n EXCEPT !.startTime = RDiv(@, RNorm(scale, 100)),
               !.duration = RDiv(@, RNorm(scale, 100))] : n \in notes}

\* C12: the structured export is the same under every tempo scale; the
\* audio export under scale s has the unscaled start times and durations
\* (those of ticksToSeconds) divided by s / 100.
C12_ExportTimesAndTempo ==
    (pure.kind = "export" /\ pure.done) =>
        /\ \A s1, s2 \in Scales : pure.json[s1] = pure.json[s2]
        /\ \A n \in pure.wav[100] :
              n.startTime =
                 ticksToSeconds(pure.doc.tracks[n.track][n.onIdx].time,
                                pure.doc.ticksPerBeat, TempoChanges(pure.doc))
        /\ \A s \in Scales : pure.wav[s] = ScaledBy(pure.wav[100], s)

\* A document with a tempo change and a note of positive start and duration
\* has been exported both ways.
C12_Witness ==
    /\ pure.kind = "export" /\ pure.done
    /\ TempoChanges(pure.doc) # <<>>
    /\ \E n \in pure.wav[200] : RLt(R(0), n.startTime) /\ RLt(R(0), n.duration)
    /\ \E tr \in 1..Len(pure.json[200]) : \E i \in 1..Len(pure.json[200][tr]) :
          /\ RLt(R(0), pure.json[200][tr][i].time)
          /\ RLt(R(0), pure.json[200][tr][i].duration)

\* C13 (as claimed): for one document and one tempo scale the notes
\* (pitch, channel, start, duration) that the audio export queues are those
\* that scheduleNotes(0) registers for firing.
C13_ExportMatchesLive ==
    (pure.kind = "export" /\ pure.done) =>
        \A s \in Scales :
            {[note |-> n.note, channel |-> n.channel,
              startTime |-> n.startTime, duration |-> n.duration] :
                n \in pure.wav[s]}
            = {[note |-> pure.live[s].timers[i].note,
                channel |-> pure.live[s].timers[i].channel,
                startTime |-> pure.live[s].timers[i].startTime,
                duration |-> pure.live[s].timers[i].duration] :
                  i \in 1..Len(pure.live[s].timers)}

\* The step is the return of the exportToWAV call suspended as conts[i].
ExportStep(i) ==
    /\ conts[i].kind = "exportToWAV" /\ conts[i].waiting = {}
    /\ conts' = RemoveAt(conts, i)

\* The instrument key resolved for each note of the export.
ResolvedKeys(W) ==
    {[track |-> n.track, onIdx |-> n.onIdx, program |-> n.program] :
        n \in QueuedNotes(W)}

\* C14 (as claimed): the instrument keys an audio export resolves are those
\* it resolves on a player whose channel programs are as constructed,
\* whatever was played on the player before.
C14_ProgramsDerivedAfresh ==
    [][\A i \in 1..Len(conts) :
          ExportStep(i) =>
              ResolvedKeys(World) =
                  ResolvedKeys([World EXCEPT
                                  !.channelPrograms = [c \in Channels |-> 0]])
      ]_vars

\* C15 (as claimed): whenever the session is Stopped or Paused no note timer
\* is pending and no poll interval is active; stop() leaves the position at
\* 0; pause() leaves the position as it was, and in Paused (entered from
\* Playing, no play, seek or stop called since) the position stays so until
\* the next play, seek or stop call.
C15_IdleIsQuiet ==
    [][/\ ~isPlaying' => (timers' = {} /\ intervals' = {})
       /\ CallStep("stop") => currentTime' = R(0)
       /\ CallStep("pause") => currentTime' = currentTime
       /\ (/\ isPaused /\ ~isPlaying /\ hist.pauseOk
           /\ hist.lastOp.op \in {"pause", "setTempo"}
           /\ ~CallStep("play") /\ ~CallStep("seek") /\ ~CallStep("stop"))
             => currentTime' = currentTime]_vars

\* The step is the end of the playNote call suspended as conts[i], with no
\* instrument for its note: neither its program's nor the piano.
DropStep(i) ==
    /\ conts[i].kind = "playNote" /\ conts[i].waiting = {}
    /\ conts' = RemoveAt(conts, i)
    /\ ~Truthy(instruments[conts[i].program]) /\ ~Truthy(instruments[0])

\* How far a suspended play() is from its end: the awaits still ahead of
\* it, then the loads it is waiting for.
PlayRank(c) == <<IF c.pc = "init" THEN 2 ELSE 1, Cardinality(c.waiting)>>
RankLess(r1, r2) == r1[1] < r2[1] \/ (r1[1] = r2[1] /\ r1[2] < r2[2])

\* C16: whatever fetches fail, a suspended play() is never stuck (it can go
\* on at once, or every load it waits for has a fetch in flight), every step
\* leaves it as it is or takes it nearer its end (a load that fails takes it
\* as far as one that succeeds), and at its end the session is Playing at the
\* offset asked for: so it reaches Playing once the fetches have settled.  A
\* note that finds no instrument when it fires is dropped, the session
\* staying as it is.
C16_FailuresNeverBlockPlayback ==
    [][/\ \A i \in 1..Len(conts') :
            conts'[i].kind = "play" =>
               \/ conts'[i].waiting = {}
               \/ \A k \in conts'[i].waiting : fetches'[k] > 0
       /\ \A i \in 1..Len(conts) :
            conts[i].kind = "play" =>
               \/ \E j \in 1..Len(conts') :
                     /\ conts'[j].kind = "play"
                     /\ conts'[j].opId = conts[i].opId
                     /\ \/ conts'[j] = conts[i]
                        \/ RankLess(PlayRank(conts'[j]), PlayRank(conts[i]))
               \/ /\ ~\E j \in 1..Len(conts') :
                        /\ conts'[j].kind = "play"
                        /\ conts'[j].opId = conts[i].opId
                  /\ conts[i].pc = "preload" /\ conts[i].waiting = {}
                  /\ isPlaying' /\ currentTime' = conts[i].startTime
       /\ \A k \in Keys :
            (fetches'[k] < fetches[k]) =>
               \A i \in 1..Len(conts') : k \notin conts'[i].waiting
       /\ \A i \in 1..Len(conts) :
            DropStep(i) =>
               UNCHANGED <<isPlaying, isPaused, currentTime, timers,
                           intervals, scheduledEvents, updateInterval,
                           instruments, fetches>>
      ]_vars

\* Playing from an offset past the program change, so on the piano, which
\* failed at init() and twice more when the note fired: the note has been
\* dropped and the session plays on.
C16_Witness ==
    /\ isPlaying /\ conts = <<>> /\ timers = {}
    /\ hist.failures = MaxLoadFailures
    /\ instruments[0] = Null /\ channelPrograms[0] = 0
    /\ \A k \in Keys : fetches[k] = 0

\* The step settles a fetch of key k.
SettlesFetch(k) == fetches'[k] < fetches[k]

\* C17: a load of a key k # 0 that fails while the piano is loaded stores
\* the piano's handle under k, and so does a successful load of a key with
\* no font URL of its own; an entry that holds a handle keeps it and is
\* never fetched again; and a note that fires on a key with such an entry is
\* played at once, with that handle, no load awaited.
C17_PianoStoredOnFailure ==
    [][/\ \A k \in Keys \ {0} :
            (SettlesFetch(k) /\ Truthy(instruments[0]))
               => \/ instruments'[k] = instruments[0]
                  \/ (hist'.failures = hist.failures /\ k \in FontKeys)
       /\ \A k \in Keys \ FontKeys :
            (SettlesFetch(k) /\ hist'.failures = hist.failures)
               => instruments'[k] = Font(0)
       /\ \A k \in Keys :
            Truthy(instruments[k])
               => instruments'[k] = instruments[k] /\ fetches'[k] = 0
       /\ \A tm \in timers :
            (/\ tm \notin timers' /\ isPlaying /\ audioContext
             /\ Truthy(instruments[ProgramOf(World, tm.channel)]))
               => conts' = conts /\ fetches' = fetches
      ]_vars

\* The load of key 24 failed with the piano loaded, the piano's handle is
\* stored under 24, and the note of channel 0, whose program is 24, has
\* fired and been played.
C17_Witness ==
    /\ instruments[0] = Font(0) /\ instruments[24] = Font(0)
    /\ hist.failures >= 1
    /\ isPlaying /\ channelPrograms[0] = 24
    /\ timers = {} /\ conts = <<>>

\* The program in force on a channel at a tick of the document: that of the
\* latest programChange of the channel at or before the tick, over all
\* tracks, 0 if there is none.
ProgramChangesUpTo(doc, channel, tick) ==
    {x \in Range(AllEvents(doc)) :
        /\ x.ev.type = "programChange" /\ x.ev.channel = channel
        /\ x.ev.time <= tick}

ProgramsInForce(doc, channel, tick) ==
    LET pcs == ProgramChangesUpTo(doc, channel, tick)
    IN  IF pcs = {} THEN {0}
        ELSE {x.ev.program : x \in {y \in pcs :
                                      \A z \in pcs : z.ev.time <= y.ev.time}}

\* The key a scheduled note is played with: playNote reads channelPrograms
\* when the timer fires, after scheduleNotes has run to its end.
FiredKey(out, tm) ==
    ProgramOf([channelPrograms |-> out.channelPrograms], tm.channel)

\* C18: a note fires with key 128 on channel 9, and otherwise with the
\* program of the latest programChange of its channel at or before its start
\* tick, 0 if there is none; a later programChange does not affect it.
C18_KeyIsProgramAtStartTick ==
    (pure.kind = "sched" /\ pure.done) =>
        \A s \in Scales :
            \A i \in 1..Len(pure.out[s].timers) :
                LET tm == pure.out[s].timers[i]
                    tick == AllEvents(pure.doc)[tm.onIdx].ev.time
                IN  IF tm.channel = DrumChannel
                    THEN FiredKey(pure.out[s], tm) = DrumKey
                    ELSE FiredKey(pure.out[s], tm)
                            \in ProgramsInForce(pure.doc, tm.channel, tick)

\* The virtual time the poll of interval iv observes at wall time t.
ObservedAt(iv, t) ==
    RAdd(iv.initialTime,
         RMul(RNorm((t - iv.startTime) * PollPeriodMs, 1000),
              RNorm(tempo, 100)))

\* The step is a poll that observes the end of the piece.
EndStep == isPlaying /\ hist.lastOp.op # "ended" /\ hist'.lastOp.op = "ended"

\* C19: a Playing session with a positive tempo scale has the poll of its
\* latest play() active, and that poll observes a virtual time that reaches
\* the total duration within finitely many periods; a poll that observes
\* virtual time >= total duration leaves the session Stopped at virtual time
\* 0 with no pending note timer and no active poll interval.
C19_PlayingEndsStopped ==
    [][/\ (isPlaying /\ tempo > 0) =>
            \E iv \in intervals :
                /\ iv.id = updateInterval
                /\ \E n \in 1..(MaxNow + 1) :
                        RLe(duration, ObservedAt(iv, iv.startTime + n))
       /\ EndStep =>
            /\ \E iv \in intervals :
                    now > iv.startTime /\ RLe(duration, ObservedAt(iv, now))
            /\ ~isPlaying' /\ ~isPaused' /\ currentTime' = R(0)
            /\ timers' = {} /\ intervals' = {}
      ]_vars

\* C20: every step into Paused starts from Playing; pause() takes Playing to
\* Paused, and pause() called while Stopped leaves the session Stopped.
C20_PausedOnlyFromPlaying ==
    [][/\ (isPaused' /\ ~isPlaying' /\ ~(isPaused /\ ~isPlaying)) => isPlaying
       /\ (CallStep("pause") /\ isPlaying) => (isPaused' /\ ~isPlaying')
       /\ (CallStep("pause") /\ ~isPlaying /\ ~isPaused)
             => (~isPaused' /\ ~isPlaying')
      ]_vars

\* Event i of the document is passed over by scheduleNotes: its time lies
\* before the start offset.
PassedOver(doc, startTime, tempoPct, i) ==
    RLt(AdjustedTime(doc, AllEvents(doc)[i].ev.time, tempoPct,
                     TempoChanges(doc)), startTime)

\* The noteOn events of the key of noteOff j that scheduleNotes has taken in
\* since the last noteOff of the key before j, in the order it visits them.
StruckBefore(doc, startTime, tempoPct, j) ==
    LET all == AllEvents(doc)
        Same(i) == /\ all[i].ev.note = all[j].ev.note
                   /\ all[i].ev.channel = all[j].ev.channel
                   /\ ~PassedOver(doc, startTime, tempoPct, i)
    IN  {i \in 1..(j - 1) :
            /\ all[i].ev.type = "noteOn" /\ Same(i)
            /\ \A m \in (i + 1)..(j - 1) :
                    ~(all[m].ev.type = "noteOff" /\ Same(m))}

Latest(S) == CHOOSE i \in S : \A m \in S : m <= i

\* C21: a noteOn for a key with a pending noteOn overwrites it: the next
\* noteOff of the key yields exactly one note, which starts at the later
\* noteOn and has its velocity; the earlier noteOn yields no note.
C21_LaterNoteOnOverwrites ==
    (pure.kind = "sched" /\ pure.done) =>
        \A s \in Scales :
            LET all == AllEvents(pure.doc)
                tms == pure.out[s].timers
            IN  \A j \in 1..Len(all) :
                    LET on == StruckBefore(pure.doc, pure.startTime, s, j)
                        made == {i \in 1..Len(tms) : tms[i].offIdx = j}
                    IN  (/\ all[j].ev.type = "noteOff"
                         /\ ~PassedOver(pure.doc, pure.startTime, s, j)
                         /\ on # {})
                          => /\ Cardinality(made) = 1
                             /\ \A i \in made :
                                  /\ tms[i].onIdx = Latest(on)
                                  /\ tms[i].velocity
                                        = all[Latest(on)].ev.velocity
                                  /\ tms[i].startTime
                                        = AdjustedTime(pure.doc,
                                             all[Latest(on)].ev.time, s,
                                             TempoChanges(pure.doc))
                             /\ \A i \in 1..Len(tms) :
                                  tms[i].onIdx \notin on \ {Latest(on)}

\* A noteOn of velocity 100, a noteOn of velocity 80 for the same key, and
\* the key's noteOff have been scheduled: one note, of velocity 80.
C21_Witness ==
    /\ pure.kind = "sched" /\ pure.done /\ pure.startTime = R(0)
    /\ Len(pure.doc.tracks) = 1
    /\ Len(pure.doc.tracks[1]) = 3
    /\ pure.doc.tracks[1][1] = NoteOn(0, 60, 100, 0)
    /\ pure.doc.tracks[1][2] = NoteOn(1, 60, 80, 0)
    /\ pure.doc.tracks[1][3] = NoteOff(2, 60, 0)
    /\ \A s \in Scales :
         /\ Len(pure.out[s].timers) = 1
         /\ pure.out[s].timers[1].velocity = 80

\* The step ends a play() that was called before the user's latest call.
EarlierPlayResumes(i) ==
    /\ conts[i].kind = "play" /\ conts[i].pc = "preload"
    /\ conts[i].waiting = {}
    /\ conts[i].opId < hist.ops
    /\ conts' = RemoveAt(conts, i)

\* C22: a play() that resumes from its preload after a later stop(), pause()
\* or seek(t2) does not undo that call: after stop() or pause() the session
\* is not Playing and no note timer is pending, and after seek(t2) the
\* position is t2 and the earlier play adds no note timer.
C22_LaterCallNotUndone ==
    [][\A i \in 1..Len(conts) :
          EarlierPlayResumes(i) =>
            /\ hist.lastOp.op \in {"stop", "pause"}
                  => /\ ~isPlaying' /\ timers' = {}
                     /\ isPaused' = (hist.lastOp.op = "pause")
            /\ hist.lastOp.op = "seek"
                  => currentTime' = hist.lastOp.t /\ timers' \subseteq timers
      ]_vars

\* C23: every delay scheduleNotes registers is non-negative, and so is the
\* duration of every note it registers, whatever the document, the start
\* offset and the tempo scale.
C23_DelaysAndDurationsNonNegative ==
    (pure.kind = "sched" /\ pure.done) =>
        \A s \in Scales :
            \A i \in 1..Len(pure.out[s].timers) :
                /\ RLe(R(0), pure.out[s].timers[i].delay)
                /\ RLe(R(0), pure.out[s].timers[i].duration)

\* C24: under every tempo scale, every note exportToWAV queues starts within
\* the render buffer it allocated, and the buffer covers the tempo-scaled
\* end of the piece.
C24_NotesWithinBuffer ==
    pure.kind = "export" =>
        \A s \in ExportScales :
            /\ \A n \in pure.queued[s] :
                  RLe(RMul(R(SampleRate), n.startTime), R(pure.frames))
            /\ RLe(RMul(R(SampleRate),
                        RDiv(calculateDuration(pure.doc), RNorm(s, 100))),
                   R(pure.frames))

====
